---- MODULE Spec2Model ----
(***************************************************************************)
(* Tile-transforming reverse proxy (server.js): the URL-keyed tile cache   *)
(* with lazy TTL expiry and bounded size, the request handler of the       *)
(* /api/ branch with its suspension points (upstream fetch, image          *)
(* transform), and the two pixel transforms.                               *)
(*                                                                         *)
(* Strings that the code searches with includes() are sequences of tokens; *)
(* a URL is a path (token sequence) and a list of query parameters.        *)
(* Byte buffers are records [enc, px]: the encoding that produced the      *)
(* bytes and the pixels they decode to.                                    *)
(***************************************************************************)
EXTENDS Integers, Sequences, FiniteSets, Bags, TLC

(***************************************************************************)
(* Bounds of the model                                                     *)
(***************************************************************************)
\* number of requests that can be in flight at the same time
NumReqs == 2
\* the clock (Date.now(), in ticks) stops advancing here
MaxTime == 2

(***************************************************************************)
(* Program constants                                                       *)
(***************************************************************************)
\* server.js:26 sets 2000; scaled so that capacity eviction is reachable
TILE_CACHE_MAX == 3
\* server.js:27 sets 5 * 60_000 ms; scaled to ticks
TILE_CACHE_TTL == 1
\* server.js:89, squared-distance threshold of the nearest-colour match
THRESHOLD == 12000
\* server.js:107, divisor of the blend factor
BLEND_DIV == 110
\* Number(token) of a token that is not a number
NaN == -1

COLOR_MAP ==
  << [src |-> <<0, 128, 0>>,     dst |-> <<52, 168, 83>>],
     [src |-> <<0, 0, 255>>,     dst |-> <<66, 133, 244>>],
     [src |-> <<255, 255, 0>>,   dst |-> <<251, 188, 4>>],
     [src |-> <<255, 165, 0>>,   dst |-> <<232, 113, 10>>],
     [src |-> <<138, 43, 226>>,  dst |-> <<156, 106, 222>>],
     [src |-> <<58, 229, 238>>,  dst |-> <<78, 184, 196>>],
     [src |-> <<75, 59, 48>>,    dst |-> <<138, 123, 110>> ] >>

DESIG_COLORS ==
  << <<191, 64, 46>>, <<17, 65, 175>>, <<160, 204, 23>>, <<255, 194, 30>> >>

(***************************************************************************)
(* Pixel transformer                                                       *)
(***************************************************************************)
SqDist(r, g, b, c) ==
  (r - c[1]) * (r - c[1]) + (g - c[2]) * (g - c[2]) + (b - c[3]) * (b - c[3])

\* the loop over the palette: first index of minimum distance (strict <).
\* Indices are 0-based as in the code.
RECURSIVE Nearest(_, _, _, _, _, _, _)
Nearest(r, g, b, colors, j, bestIdx, bestDist) ==
  IF j > Len(colors) THEN [idx |-> bestIdx, dist |-> bestDist]
  ELSE LET dist == SqDist(r, g, b, colors[j])
       IN  IF bestIdx = -1 \/ dist < bestDist
           THEN Nearest(r, g, b, colors, j + 1, j - 1, dist)
           ELSE Nearest(r, g, b, colors, j + 1, bestIdx, bestDist)

SrcColors == [j \in 1..Len(COLOR_MAP) |-> COLOR_MAP[j].src]

\* floor of the square root, by bisection
RECURSIVE ISqrtIn(_, _, _)
ISqrtIn(n, lo, hi) ==
  IF lo >= hi THEN lo
  ELSE LET mid == (lo + hi + 1) \div 2
       IN  IF mid * mid <= n THEN ISqrtIn(n, mid, hi) ELSE ISqrtIn(n, lo, mid - 1)
\* (the search stops at 46340, the largest root whose square is below 2^31)
FloorSqrt(n) == ISqrtIn(n, 0, IF n > 46340 THEN 46340 ELSE n)
CeilSqrt(n) == LET f == FloorSqrt(n) IN IF f * f = n THEN f ELSE f + 1

\* Math.round(c + delta * (1 - sqrt(dist) / 110)) in exact arithmetic, which is
\* floor((220 c + 220 delta + 110 - 2 delta sqrt(dist)) / 220); for dist below
\* the threshold the blend factor is positive, so max(0, .) does not bite.
\* The store into the byte buffer keeps the low 8 bits.
Blend(c, delta, dist) ==
  LET n == 2 * BLEND_DIV * c + 2 * BLEND_DIV * delta + BLEND_DIV
      s == 4 * delta * delta * dist
      v == IF FloorSqrt(dist) >= BLEND_DIV THEN c
           ELSE IF delta >= 0 THEN (n - CeilSqrt(s)) \div (2 * BLEND_DIV)
           ELSE (n + FloorSqrt(s)) \div (2 * BLEND_DIV)
  IN  v % 256

\* hideSet is [null, elems]: null when the request carries no hide list
HideHas(hideSet, idx) == (~hideSet.null) /\ idx \in hideSet.elems

\* a loop body of remapPixels that tests the hide-set only on an exact match
RemapPixel_HideExactOnly(p, hideSet) ==
  IF p[4] = 0 THEN p
  ELSE LET best == Nearest(p[1], p[2], p[3], SrcColors, 1, -1, 0)
           d == COLOR_MAP[best.idx + 1].dst
           s == COLOR_MAP[best.idx + 1].src
       IN  IF best.dist >= THRESHOLD THEN p
           ELSE IF best.dist = 0
           THEN IF HideHas(hideSet, best.idx) THEN <<p[1], p[2], p[3], 0>>
                ELSE <<d[1], d[2], d[3], p[4]>>
           ELSE << Blend(p[1], d[1] - s[1], best.dist),
                   Blend(p[2], d[2] - s[2], best.dist),
                   Blend(p[3], d[3] - s[3], best.dist),
                   p[4] >>

\* a loop body of remapPixels without the skip of transparent pixels
RemapPixel_NoAlphaSkip(p, hideSet) ==
  LET best == Nearest(p[1], p[2], p[3], SrcColors, 1, -1, 0)
      d == COLOR_MAP[best.idx + 1].dst
      s == COLOR_MAP[best.idx + 1].src
  IN  IF best.dist >= THRESHOLD THEN p
      ELSE IF HideHas(hideSet, best.idx) THEN <<p[1], p[2], p[3], 0>>
      ELSE IF best.dist = 0 THEN <<d[1], d[2], d[3], p[4]>>
      ELSE << Blend(p[1], d[1] - s[1], best.dist),
              Blend(p[2], d[2] - s[2], best.dist),
              Blend(p[3], d[3] - s[3], best.dist),
              p[4] >>

\* a loop body of remapPixels whose threshold test is bestDist <= 12000
RemapPixel_ThresholdInclusive(p, hideSet) ==
  IF p[4] = 0 THEN p
  ELSE LET best == Nearest(p[1], p[2], p[3], SrcColors, 1, -1, 0)
           d == COLOR_MAP[best.idx + 1].dst
           s == COLOR_MAP[best.idx + 1].src
       IN  IF best.dist > THRESHOLD THEN p
           ELSE IF HideHas(hideSet, best.idx) THEN <<p[1], p[2], p[3], 0>>
           ELSE IF best.dist = 0 THEN <<d[1], d[2], d[3], p[4]>>
           ELSE << Blend(p[1], d[1] - s[1], best.dist),
                   Blend(p[2], d[2] - s[2], best.dist),
                   Blend(p[3], d[3] - s[3], best.dist),
                   p[4] >>

\* a loop body of remapPixels that recolours blended pixels only
RemapPixel_ExactKeepsSource(p, hideSet) ==
  IF p[4] = 0 THEN p
  ELSE LET best == Nearest(p[1], p[2], p[3], SrcColors, 1, -1, 0)
           d == COLOR_MAP[best.idx + 1].dst
           s == COLOR_MAP[best.idx + 1].src
       IN  IF best.dist >= THRESHOLD THEN p
           ELSE IF HideHas(hideSet, best.idx) THEN <<p[1], p[2], p[3], 0>>
           ELSE IF best.dist = 0 THEN p
           ELSE << Blend(p[1], d[1] - s[1], best.dist),
                   Blend(p[2], d[2] - s[2], best.dist),
                   Blend(p[3], d[3] - s[3], best.dist),
                   p[4] >>

\* one iteration of the loop of remapPixels, on pixel <<r, g, b, a>>
RemapPixel(p, hideSet) ==
  IF p[4] = 0 THEN p
  ELSE LET best == Nearest(p[1], p[2], p[3], SrcColors, 1, -1, 0)
       IN  IF best.dist < THRESHOLD
           THEN IF HideHas(hideSet, best.idx)
                THEN <<p[1], p[2], p[3], 0>>
                ELSE LET d == COLOR_MAP[best.idx + 1].dst
                         s == COLOR_MAP[best.idx + 1].src
                     IN  IF best.dist = 0
                         THEN <<d[1], d[2], d[3], p[4]>>
                         ELSE << Blend(p[1], d[1] - s[1], best.dist),
                                 Blend(p[2], d[2] - s[2], best.dist),
                                 Blend(p[3], d[3] - s[3], best.dist),
                                 p[4] >>
           ELSE p

remapPixels(data, hideSet) == [i \in 1..Len(data) |-> RemapPixel(data[i], hideSet)]

\* a loop body of filterDesigPixels without the distance threshold
FilterDesigPixel_NoThreshold(p, hideSet) ==
  IF p[4] = 0 THEN p
  ELSE IF Nearest(p[1], p[2], p[3], DESIG_COLORS, 1, -1, 0).idx \in hideSet.elems
  THEN <<p[1], p[2], p[3], 0>>
  ELSE p

\* one iteration of the loop of filterDesigPixels
FilterDesigPixel(p, hideSet) ==
  IF p[4] = 0 THEN p
  ELSE LET best == Nearest(p[1], p[2], p[3], DESIG_COLORS, 1, -1, 0)
       IN  IF best.dist < THRESHOLD /\ best.idx \in hideSet.elems
           THEN <<p[1], p[2], p[3], 0>>
           ELSE p

filterDesigPixels(data, hideSet) ==
  [i \in 1..Len(data) |-> FilterDesigPixel(data[i], hideSet)]

(***************************************************************************)
(* Buffers, URLs and upstream responses                                    *)
(***************************************************************************)
\* null (getCachedTile found nothing) and the two fixed bodies of the handler
NullBuf == [enc |-> "null", px |-> <<>>]
EmptyBody == [enc |-> "empty", px |-> <<>>]
ProxyErrorBody == [enc |-> "json:Proxy error", px |-> <<>>]

\* the empty string, as the list of its comma-separated tokens
EmptyStr == <<"">>

Param(n, v) == [name |-> n, value |-> v]
NoResp == [status |-> 0, ctype |-> "", cc |-> "", body |-> NullBuf]

\* URLSearchParams.get(name) || '' : the value of the first tuple called name
SearchGet(query, name) ==
  LET idxs == {i \in 1..Len(query) : query[i].name = name}
  IN  IF idxs = {} THEN EmptyStr
      ELSE query[CHOOSE i \in idxs : \A j \in idxs : i <= j].value

\* URLSearchParams.delete(name): removes every tuple called name
SearchDelete(query, name) == SelectSeq(query, LAMBDA p : p.name # name)

\* Number(token)
Number(tok) ==
  CASE tok = "0" -> 0
    [] tok = "1" -> 1
    [] tok = "2" -> 2
    [] tok = "3" -> 3
    [] tok = ""  -> 0
    [] OTHER     -> NaN

hideStr(url) == SearchGet(url.query, "hide")

hideSetOf(url) ==
  IF hideStr(url) # EmptyStr
  THEN [null |-> FALSE,
        elems |-> {Number(hideStr(url)[i]) : i \in 1..Len(hideStr(url))}]
  ELSE [null |-> TRUE, elems |-> {}]

\* cleanUrl that removes only the first hide parameter
cleanUrl_FirstOnly(url) ==
  LET idxs == {i \in 1..Len(url.query) : url.query[i].name = "hide"}
      first == IF idxs = {} THEN 0 ELSE CHOOSE i \in idxs : \A j \in idxs : i <= j
  IN  [path |-> url.path,
       query |-> [i \in 1..(Len(url.query) - (IF first = 0 THEN 0 ELSE 1)) |->
                    IF first = 0 \/ i < first THEN url.query[i] ELSE url.query[i + 1]]]

\* parsed.pathname + parsed.search after searchParams.delete('hide')
cleanUrl(url) == [path |-> url.path, query |-> SearchDelete(url.query, "hide")]

\* '/mappingapi' + cleanUrl
targetPath(url) ==
  [path |-> <<"mappingapi">> \o cleanUrl(url).path, query |-> cleanUrl(url).query]

\* API_TARGET + targetPath
targetUrl(url) == [host |-> "plownyc.cityofnewyork.us", target |-> targetPath(url)]

\* String.prototype.includes on the tokens of a path with its query
Includes(tp, marker) ==
  \/ \E i \in 1..Len(tp.path) : tp.path[i] = marker
  \/ \E i \in 1..Len(tp.query) :
       \/ tp.query[i].name = marker
       \/ \E j \in 1..Len(tp.query[i].value) : tp.query[i].value[j] = marker

isTileReq(url) ==
  /\ Includes(targetPath(url), "highlight")
  /\ ~Includes(targetPath(url), "active")
  /\ ~Includes(targetPath(url), "info")
isPlowTile(url) == isTileReq(url) /\ Includes(targetPath(url), "VISITED")
isDesigTile(url) == isTileReq(url) /\ ~isPlowTile(url)

(***************************************************************************)
(* Tile cache: a Map in insertion order, as the sequence of its entries    *)
(***************************************************************************)
Keys(cache) == {cache[i].key : i \in 1..Len(cache)}
MapHas(cache, key) == key \in Keys(cache)
MapGet(cache, key) == cache[CHOOSE i \in 1..Len(cache) : cache[i].key = key]
MapDelete(cache, key) == SelectSeq(cache, LAMBDA e : e.key # key)
\* Map.prototype.set: a key that is present keeps its position
MapSet(cache, key, entry) ==
  IF MapHas(cache, key)
  THEN [i \in 1..Len(cache) |-> IF cache[i].key = key THEN entry ELSE cache[i]]
  ELSE Append(cache, entry)

\* getCachedTile that expires an entry already at age TILE_CACHE_TTL
getCachedTile_ExpiresAtTtl(cache, key, t) ==
  IF ~MapHas(cache, key)
  THEN [cache |-> cache, ret |-> NullBuf, probe |-> "absent"]
  ELSE IF t - MapGet(cache, key).timestamp >= TILE_CACHE_TTL
  THEN [cache |-> MapDelete(cache, key), ret |-> NullBuf, probe |-> "expired"]
  ELSE [cache |-> MapSet(MapDelete(cache, key), key, MapGet(cache, key)),
        ret |-> MapGet(cache, key).buffer, probe |-> "hit"]

\* getCachedTile without the expiry check
getCachedTile_NoExpiry(cache, key, t) ==
  IF ~MapHas(cache, key)
  THEN [cache |-> cache, ret |-> NullBuf, probe |-> "absent"]
  ELSE [cache |-> MapSet(MapDelete(cache, key), key, MapGet(cache, key)),
        ret |-> MapGet(cache, key).buffer, probe |-> "hit"]

\* getCachedTile that stamps the entry anew on a hit
getCachedTile_RefreshOnHit(cache, key, t) ==
  IF ~MapHas(cache, key)
  THEN [cache |-> cache, ret |-> NullBuf, probe |-> "absent"]
  ELSE IF t - MapGet(cache, key).timestamp > TILE_CACHE_TTL
  THEN [cache |-> MapDelete(cache, key), ret |-> NullBuf, probe |-> "expired"]
  ELSE [cache |-> MapSet(MapDelete(cache, key), key,
                         [MapGet(cache, key) EXCEPT !.timestamp = t]),
        ret |-> MapGet(cache, key).buffer, probe |-> "hit"]

\* getCachedTile(key) at time t: the cache afterwards, the value returned and
\* which of the three returns was taken
getCachedTile(cache, key, t) ==
  IF ~MapHas(cache, key)
  THEN [cache |-> cache, ret |-> NullBuf, probe |-> "absent"]
  ELSE LET entry == MapGet(cache, key)
       IN  IF t - entry.timestamp > TILE_CACHE_TTL
           THEN [cache |-> MapDelete(cache, key), ret |-> NullBuf, probe |-> "expired"]
           ELSE [cache |-> MapSet(MapDelete(cache, key), key, entry),
                 ret |-> entry.buffer, probe |-> "hit"]

\* setCachedTile without the eviction
setCachedTile_NoEvict(cache, key, buffer, t) ==
  MapSet(cache, key, [key |-> key, buffer |-> buffer, timestamp |-> t])

\* setCachedTile that leaves the entry of a key that is present alone
setCachedTile_KeepExisting(cache, key, buffer, t) ==
  IF MapHas(cache, key) THEN cache
  ELSE MapSet(IF Len(cache) >= TILE_CACHE_MAX THEN Tail(cache) ELSE cache,
              key, [key |-> key, buffer |-> buffer, timestamp |-> t])

\* setCachedTile(key, buffer) at time t
setCachedTile(cache, key, buffer, t) ==
  LET evicted == IF Len(cache) >= TILE_CACHE_MAX
                 THEN MapDelete(cache, cache[1].key)
                 ELSE cache
  IN  MapSet(evicted, key, [key |-> key, buffer |-> buffer, timestamp |-> t])

(***************************************************************************)
(* Image codec (sharp) and the two tile transforms                         *)
(***************************************************************************)
\* sharp(inputBuffer).metadata() / .raw().toBuffer() throw on bytes that are
\* no image
Decodes(buf) == buf.enc # "corrupt"

\* decode, remapPixels, re-encode as PNG
remapTile(inputBuffer, hideSet) ==
  [enc |-> "png", px |-> remapPixels(inputBuffer.px, hideSet)]

\* decode, filterDesigPixels, re-encode as PNG
filterDesigTile(inputBuffer, hideSet) ==
  [enc |-> "png", px |-> filterDesigPixels(inputBuffer.px, hideSet)]

\* the branch of the try block that a request takes
TransformKind(url) ==
  IF isPlowTile(url) THEN "remap"
  ELSE IF ~hideSetOf(url).null /\ Cardinality(hideSetOf(url).elems) > 0 THEN "filter"
  ELSE "pass"

\* outputBuf computed without the hide list of the request
OutputBuf_IgnoreHide(url, buf) ==
  IF isPlowTile(url) THEN remapTile(buf, [null |-> TRUE, elems |-> {}]) ELSE buf

\* outputBuf of the try block, for a buffer that decodes
OutputBuf(url, buf) ==
  CASE TransformKind(url) = "remap"  -> remapTile(buf, hideSetOf(url))
    [] TransformKind(url) = "filter" -> filterDesigTile(buf, hideSetOf(url))
    [] OTHER -> buf

(***************************************************************************)
(* Responses written by the handler; every one carries the permissive     *)
(* Access-Control-Allow-Origin header. cc is the Cache-Control header, ""  *)
(* when the header is not set                                              *)
(***************************************************************************)
CtypeIsImage(ctype) == ctype \in {"image/png", "image/jpeg"}

TileOk(body) ==
  [status |-> 200, ctype |-> "image/png", cc |-> "public, max-age=300", body |-> body]
HitFallback(rawCached) ==
  [status |-> 200, ctype |-> "image/png", cc |-> "", body |-> rawCached]
MissFallback(inputBuf, upCtype) ==
  [status |-> 200, ctype |-> IF upCtype = "" THEN "image/png" ELSE upCtype,
   cc |-> "", body |-> inputBuf]
\* a 404 branch that passes the empty upstream status on
NotFound_NoContent == [status |-> 204, ctype |-> "", cc |-> "", body |-> EmptyBody]

NotFound == [status |-> 404, ctype |-> "text/plain", cc |-> "", body |-> EmptyBody]
\* an 'error' handler that answers with a bare 500
BadGateway_Bare500 ==
  [status |-> 500, ctype |-> "text/plain", cc |-> "", body |-> EmptyBody]

BadGateway ==
  [status |-> 502, ctype |-> "application/json", cc |-> "", body |-> ProxyErrorBody]
\* a pipe-through branch that always sets Cache-Control: no-cache
Piped_AlwaysNoCache(up) ==
  [status |-> up.status,
   ctype |-> IF up.ctype = "" THEN "application/octet-stream" ELSE up.ctype,
   cc |-> "no-cache",
   body |-> up.body]

Piped(up) ==
  [status |-> up.status,
   ctype |-> IF up.ctype = "" THEN "application/octet-stream" ELSE up.ctype,
   cc |-> IF up.cc = "" THEN "no-cache" ELSE up.cc,
   body |-> up.body]

(***************************************************************************)
(* Inputs: the URLs clients ask for and what upstream answers.             *)
(* The state holds a URL as its index in AllUrls, and a cache key (the     *)
(* string cleanUrl) as the index of the first URL with that clean URL, so  *)
(* two keys are equal exactly when the strings are.                        *)
(***************************************************************************)
Green == <<0, 128, 0, 255>>
Critical == <<191, 64, 46, 255>>
Transparent == <<0, 0, 0, 0>>
TileImg == [enc |-> "upstream", px |-> <<Green, Critical, Transparent>>]
Corrupt == [enc |-> "corrupt", px |-> <<>>]
HtmlBody == [enc |-> "html", px |-> <<>>]

TileUrl(layer, z, hide) ==
  [path |-> <<"api", "highlight">>,
   query |-> <<Param("layerName", <<layer>>), Param("z", <<z>>)>> \o hide]
InfoUrl ==
  [path |-> <<"api", "highlight", "info">>, query |-> <<Param("z", <<"1">>)>>]

StaticUrl(path) == [path |-> path, query |-> <<>>]

NoHide == <<>>
Hide(v) == <<Param("hide", v)>>

AllUrls ==
  << TileUrl("VISITED", "1", NoHide),
     TileUrl("DESIG", "1", NoHide),
     TileUrl("DESIG", "2", NoHide),
     TileUrl("DESIG", "3", NoHide),
     TileUrl("VISITED", "1", Hide(<<"0">>)),
     TileUrl("VISITED", "1", Hide(<<"1">>) \o Hide(<<"0">>)),
     TileUrl("DESIG", "1", Hide(<<"0">>)),
     TileUrl("DESIG", "1", Hide(<<"1">>) \o Hide(<<"0">>)),
     InfoUrl,
     TileUrl("VISITED", "1", Hide(<<"1">>)),
     TileUrl("VISITED", "1", Hide(<<"1", "">>)),
     TileUrl("VISITED", "1", Hide(<<"x">>)),
     TileUrl("DESIG", "1", Hide(<<"x">>)),
     StaticUrl(<<"index.html">>),
     StaticUrl(<<"favicon.ico">>),
     StaticUrl(<<"..", "server.js">>) >>

UrlIds == DOMAIN AllUrls

\* the cache workload: four tile keys, one of them a plow tile; upstream
\* delivers the tile or has none
Urls == {1, 2, 3, 4}

UpstreamResps ==
  { [status |-> 200, ctype |-> "image/png", cc |-> "", body |-> TileImg],
    [status |-> 204, ctype |-> "", cc |-> "", body |-> EmptyBody] }

\* the proxy workload: two tile keys under several hide lists and a non-tile
\* path; upstream delivers images, corrupt images, non-images and errors
ProxyUrls == {1, 2, 5, 6, 7, 8, 9}

ProxyResps ==
  { [status |-> 200, ctype |-> "image/png", cc |-> "", body |-> TileImg],
    [status |-> 200, ctype |-> "image/jpeg", cc |-> "max-age=60", body |-> Corrupt],
    [status |-> 204, ctype |-> "", cc |-> "", body |-> EmptyBody],
    [status |-> 200, ctype |-> "text/html", cc |-> "", body |-> HtmlBody],
    [status |-> 500, ctype |-> "image/png", cc |-> "", body |-> Corrupt] }

\* the hide-list workload: one plow and one designation key under hide lists
\* with a numeric token, an empty token and a token that is no number;
\* upstream delivers the tile or bytes that do not decode
HideUrls == {1, 2, 10, 11, 12, 13}

HideResps ==
  { [status |-> 200, ctype |-> "image/png", cc |-> "", body |-> TileImg],
    [status |-> 200, ctype |-> "image/jpeg", cc |-> "max-age=60", body |-> Corrupt] }

\* the dispatch workload: both methods on a tile path, a non-tile proxied
\* path and three paths outside the proxy prefix
Methods == {"GET", "OPTIONS"}
MethodUrls == {1, 9, 14, 15, 16}

AllBodies == {TileImg, Corrupt, EmptyBody, HtmlBody}

\* the guard of the cache probe, and of the buffering branch
IsCachedKind(url) == isPlowTile(url) \/ isDesigTile(url)

\* what the handler derives from req.url before it touches the cache,
\* computed once per URL
Ctx ==
  [u \in UrlIds |->
     [key |-> CHOOSE v \in UrlIds :
                /\ cleanUrl(AllUrls[v]) = cleanUrl(AllUrls[u])
                /\ \A w \in UrlIds :
                     cleanUrl(AllUrls[w]) = cleanUrl(AllUrls[u]) => v <= w,
      target |-> targetUrl(AllUrls[u]),
      isTileReq |-> isTileReq(AllUrls[u]),
      cached |-> IsCachedKind(AllUrls[u]),
      kind |-> TransformKind(AllUrls[u]),
      out |-> [b \in AllBodies |-> OutputBuf(AllUrls[u], b)]]]

(***************************************************************************)
(* State                                                                   *)
(***************************************************************************)
VARIABLES
  now,        \* Date.now()
  tileCache,  \* the Map, in insertion order
  inflight,   \* the requests suspended at an await or waiting for upstream,
              \* a bag: a request has no identity beyond its closure
  last,       \* what the last step did: the URL of the request, the outcome
              \* of the cache probe (probe, ret), of the put (put, had: the
              \* key was present, full: the cache was at capacity), the
              \* upstream response this request got (up), the body it
              \* buffered (raw), whether https.get was issued (fetch), where
              \* the request is left (next), the response written (resp) and
              \* the upstream calls of the request so far (calls)
  recency,    \* the cached keys, least recently touched first (history)
  lastPut,    \* the cached keys with the bytes of their most recent put (history)
  pix         \* a call of a pixel function on its own: the function, the
              \* RGBA buffer and the hide-set passed, the buffer returned

vars == <<now, tileCache, inflight, last, recency, lastPut, pix>>

\* a request suspended at pc, with what its closure holds
Req(pc, u, buf, upCtype, upCc, calls) ==
  [pc |-> pc, url |-> u, buf |-> buf, upCtype |-> upCtype, upCc |-> upCc,
   calls |-> calls]

Fetching(u) == Req("fetching", u, NullBuf, "", "", 1)

Pending == BagToSet(inflight)
Add(q) == inflight (+) SetToBag({q})
Replace(q, q2) == (inflight (-) SetToBag({q})) (+) SetToBag({q2})
Drop(q) == inflight (-) SetToBag({q})

\* the Access-Control-Allow-Methods and -Headers of a response, "" when the
\* header is not set
NoAllow == [methods |-> "", headers |-> ""]

NoStep ==
  [step |-> "none", url |-> 0, probe |-> "none", ret |-> NullBuf,
   put |-> FALSE, had |-> FALSE, full |-> FALSE, up |-> NoResp, raw |-> NullBuf,
   fetch |-> FALSE, next |-> "none", resp |-> NoResp, calls |-> 0,
   method |-> "", allow |-> NoAllow]

\* no pixel function has been called on its own
NoCall == [fn |-> "none", data |-> <<>>, hideSet |-> [null |-> TRUE, elems |-> {}],
           out |-> <<>>]

Init ==
  /\ now = 0
  /\ tileCache = <<>>
  /\ inflight = EmptyBag
  /\ last = NoStep
  /\ recency = <<>>
  /\ lastPut = {}
  /\ pix = NoCall

\* history: key was touched (put or get hit) and the cache is now c
Touched(c, key) ==
  SelectSeq(SelectSeq(recency, LAMBDA k : k # key) \o <<key>>, LAMBDA k : k \in Keys(c))
Untouched(c) == SelectSeq(recency, LAMBDA k : k \in Keys(c))

\* history: buffer was put under key and the cache is now c
PutLog(c, key, buffer) ==
  {p \in lastPut : p[1] # key /\ p[1] \in Keys(c)} \cup {<<key, buffer>>}
KeepLog(c) == {p \in lastPut : p[1] \in Keys(c)}

(***************************************************************************)
(* The request handler, /api/ branch                                       *)
(***************************************************************************)
\* the 404 branch without the content-type test
RejectsTile_StatusOnly(u, up) == Ctx[u].isTileReq /\ up.status = 204

\* the 404 branch of the response callback
RejectsTile(u, up) ==
  Ctx[u].isTileReq /\ (up.status = 204 \/ ~CtypeIsImage(up.ctype))

\* the buffering branch of the response callback
BuffersTile(u, up) == Ctx[u].cached /\ up.status = 200

\* the cache probe of a tile request
Probe(u) ==
  IF Ctx[u].cached THEN getCachedTile(tileCache, Ctx[u].key, now)
  ELSE [cache |-> tileCache, ret |-> NullBuf, probe |-> "none"]

\* the /api/ branch of the handler up to its first suspension point: parse,
\* classify, probe the cache; on a hit answer from the cache, else issue
\* https.get. The branch never reads req.method.
Handle(method, u) ==
  LET g == Probe(u)
      hit == g.probe = "hit"
      sync == hit /\ Ctx[u].kind = "pass"
  IN  /\ tileCache' = g.cache
      /\ recency' = IF hit THEN Touched(g.cache, Ctx[u].key) ELSE Untouched(g.cache)
      /\ lastPut' = KeepLog(g.cache)
      /\ inflight' =
           IF sync THEN inflight
           ELSE IF hit THEN Add(Req("hitTransform", u, g.ret, "", "", 0))
           ELSE Add(Fetching(u))
      /\ last' = [NoStep EXCEPT !.step = "Arrive", !.url = u,
                                !.method = method,
                                !.probe = g.probe, !.ret = g.ret,
                                !.fetch = ~hit,
                                !.next = IF sync THEN "done"
                                         ELSE IF hit THEN "hitTransform"
                                         ELSE "fetching",
                                !.resp = IF sync THEN TileOk(g.ret) ELSE NoResp,
                                !.calls = IF hit THEN 0 ELSE 1]
      /\ UNCHANGED <<now, pix>>

Arrive(U) ==
  /\ BagCardinality(inflight) < NumReqs
  /\ \E u \in U : Handle("GET", u)

\* the response callback of https.get together with the 'end' event of the
\* body: nothing of the program runs for this request in between
OnResponse(q, up) ==
  LET u == q.url
      key == Ctx[u].key
      ev == [NoStep EXCEPT !.step = "UpstreamResponse", !.url = u,
                           !.up = up, !.calls = q.calls, !.next = "done"]
  IN  IF RejectsTile(u, up)
      THEN /\ inflight' = Drop(q)
           /\ last' = [ev EXCEPT !.resp = NotFound]
           /\ UNCHANGED <<tileCache, recency, lastPut>>
      ELSE IF BuffersTile(u, up)
      THEN LET c == setCachedTile(tileCache, key, up.body, now)
               sync == Ctx[u].kind = "pass"
           IN  /\ tileCache' = c
               /\ recency' = Touched(c, key)
               /\ lastPut' = PutLog(c, key, up.body)
               /\ inflight' =
                    IF sync THEN Drop(q)
                    ELSE Replace(q, Req("missTransform", u, up.body, up.ctype,
                                        up.cc, q.calls))
               /\ last' = [ev EXCEPT !.put = TRUE, !.raw = up.body,
                                     !.had = MapHas(tileCache, key),
                                     !.full = Len(tileCache) >= TILE_CACHE_MAX,
                                     !.next = IF sync THEN "done" ELSE "missTransform",
                                     !.resp = IF sync THEN TileOk(up.body) ELSE NoResp]
      ELSE /\ inflight' = Drop(q)
           /\ last' = [ev EXCEPT !.resp = Piped(up)]
           /\ UNCHANGED <<tileCache, recency, lastPut>>

UpstreamResponse(R) ==
  /\ \E q \in Pending :
       /\ q.pc = "fetching"
       /\ \E up \in R : OnResponse(q, up)
  /\ UNCHANGED <<now, pix>>

\* the 'error' event of the upstream request
UpstreamError ==
  /\ \E q \in Pending :
       /\ q.pc = "fetching"
       /\ inflight' = Drop(q)
       /\ last' = [NoStep EXCEPT !.step = "UpstreamError", !.url = q.url,
                                 !.next = "done", !.resp = BadGateway,
                                 !.calls = q.calls]
  /\ UNCHANGED <<now, tileCache, recency, lastPut, pix>>

\* a catch block that surfaces the failed transform as an error status
TransformResponse_ErrorOnThrow(pc, u, buf, upCtype) ==
  IF Decodes(buf) THEN TileOk(Ctx[u].out[buf])
  ELSE [status |-> 500, ctype |-> "text/plain", cc |-> "", body |-> EmptyBody]

\* a catch block that swallows the failed transform and writes nothing
TransformResponse_SilentOnThrow(pc, u, buf, upCtype) ==
  IF Decodes(buf) THEN TileOk(Ctx[u].out[buf]) ELSE NoResp

\* what the try/catch around the transform writes, on the hit and miss path
TransformResponse(pc, u, buf, upCtype) ==
  IF Decodes(buf) THEN TileOk(Ctx[u].out[buf])
  ELSE IF pc = "hitTransform" THEN HitFallback(buf)
  ELSE MissFallback(buf, upCtype)

\* the awaited remapTile / filterDesigTile settles: resolved or rejected
TransformDone ==
  /\ \E q \in Pending :
       /\ q.pc \in {"hitTransform", "missTransform"}
       /\ inflight' = Drop(q)
       /\ last' = [NoStep EXCEPT
                     !.step = "TransformDone", !.url = q.url,
                     !.ret = IF q.pc = "hitTransform" THEN q.buf ELSE NullBuf,
                     !.raw = IF q.pc = "missTransform" THEN q.buf ELSE NullBuf,
                     !.probe = IF q.pc = "hitTransform" THEN "hit" ELSE "none",
                     !.up = IF q.pc = "missTransform"
                            THEN [status |-> 200, ctype |-> q.upCtype,
                                  cc |-> q.upCc, body |-> q.buf]
                            ELSE NoResp,
                     !.next = "done",
                     !.resp = TransformResponse(q.pc, q.url, q.buf, q.upCtype),
                     !.calls = q.calls]
  /\ UNCHANGED <<now, tileCache, recency, lastPut, pix>>

\* time passes
Tick ==
  /\ now < MaxTime
  /\ now' = now + 1
  /\ last' = [NoStep EXCEPT !.step = "Tick"]
  /\ UNCHANGED <<tileCache, inflight, recency, lastPut, pix>>

Next ==
  \/ Arrive(Urls)
  \/ UpstreamResponse(UpstreamResps)
  \/ UpstreamError
  \/ TransformDone
  \/ Tick

Spec == Init /\ [][Next]_vars

NextProxy ==
  \/ Arrive(ProxyUrls)
  \/ UpstreamResponse(ProxyResps)
  \/ UpstreamError
  \/ TransformDone
  \/ Tick

SpecProxy == Init /\ [][NextProxy]_vars

(***************************************************************************)
(* The whole request handler: proxy prefix first, then the OPTIONS          *)
(* preflight, then static files                                            *)
(***************************************************************************)
\* process.env.MAPBOX_ACCESS_TOKEN || '' with the variable unset
MAPBOX_TOKEN == ""

\* req.url.startsWith('/api/')
StartsWithApi(url) == Len(url.path) >= 2 /\ url.path[1] = "api"

\* !filePath.startsWith(STATIC_DIR) after path.join(STATIC_DIR, req.url)
LeavesStaticDir(url) == Len(url.path) >= 1 /\ url.path[1] = ".."

\* path.extname(filePath) of the files of the workload
ExtName(url) ==
  CASE url.path[Len(url.path)] = "index.html" -> ".html"
    [] url.path[Len(url.path)] = "favicon.ico" -> ".ico"
    [] OTHER -> ".js"

\* MIME_TYPES[ext] || 'application/octet-stream'
ContentTypeOf(ext) ==
  CASE ext = ".html" -> "text/html"
    [] ext = ".ico" -> "image/x-icon"
    [] ext = ".js" -> "application/javascript"
    [] OTHER -> "application/octet-stream"

AllowPreflight == [methods |-> "GET, OPTIONS", headers |-> "Content-Type"]
Preflight == [status |-> 204, ctype |-> "", cc |-> "", body |-> EmptyBody]
Forbidden ==
  [status |-> 403, ctype |-> "", cc |-> "", body |-> [enc |-> "text:Forbidden", px |-> <<>>]]
FaviconMissing == [status |-> 204, ctype |-> "", cc |-> "", body |-> EmptyBody]
FileMissing ==
  [status |-> 404, ctype |-> "text/plain", cc |-> "",
   body |-> [enc |-> "text:Not found", px |-> <<>>]]
FileData(url) ==
  [status |-> 200, ctype |-> ContentTypeOf(ExtName(url)), cc |-> "",
   body |-> [enc |-> IF ExtName(url) = ".html" /\ MAPBOX_TOKEN # ""
                     THEN "file+token" ELSE "file",
             px |-> <<>>]]

\* the callback of http.createServer up to its first suspension point
Serve(method, u) ==
  IF StartsWithApi(AllUrls[u]) THEN Handle(method, u)
  ELSE LET ev == [NoStep EXCEPT !.step = "Arrive", !.url = u, !.method = method,
                                !.next = "done"]
       IN  /\ UNCHANGED <<now, tileCache, recency, lastPut, pix>>
           /\ IF method = "OPTIONS"
              THEN /\ last' = [ev EXCEPT !.resp = Preflight, !.allow = AllowPreflight]
                   /\ UNCHANGED inflight
              ELSE IF LeavesStaticDir(AllUrls[u])
              THEN /\ last' = [ev EXCEPT !.resp = Forbidden]
                   /\ UNCHANGED inflight
              ELSE /\ last' = [ev EXCEPT !.next = "reading"]
                   /\ inflight' = Add(Req("reading", u, NullBuf, "", "", 0))

Request(M, U) ==
  /\ BagCardinality(inflight) < NumReqs
  /\ \E method \in M, u \in U : Serve(method, u)

\* the callback of fs.readFile: the file was read or the read failed
ReadFileDone ==
  /\ \E q \in Pending :
       /\ q.pc = "reading"
       /\ inflight' = Drop(q)
       /\ \E err \in BOOLEAN :
            last' = [NoStep EXCEPT
                       !.step = "ReadFileDone", !.url = q.url, !.next = "done",
                       !.resp = IF ~err THEN FileData(AllUrls[q.url])
                                ELSE IF AllUrls[q.url].path = <<"favicon.ico">>
                                THEN FaviconMissing
                                ELSE FileMissing]
  /\ UNCHANGED <<now, tileCache, recency, lastPut, pix>>

NextMethods ==
  \/ Request(Methods, MethodUrls)
  \/ UpstreamResponse(UpstreamResps)
  \/ UpstreamError
  \/ TransformDone
  \/ ReadFileDone
  \/ Tick

SpecMethods == Init /\ [][NextMethods]_vars

\* the response workload: a plow tile, a designation tile that is passed
\* through and a non-tile path; upstream delivers the tile, bytes that do not
\* decode, or no tile
LiveUrls == {1, 2, 9}

LiveResps ==
  { [status |-> 200, ctype |-> "image/png", cc |-> "", body |-> TileImg],
    [status |-> 200, ctype |-> "image/jpeg", cc |-> "max-age=60", body |-> Corrupt],
    [status |-> 204, ctype |-> "", cc |-> "", body |-> EmptyBody] }

\* the closures a request of that workload can be suspended with
LiveReqs ==
  {Fetching(u) : u \in LiveUrls}
    \cup {Req("hitTransform", u, up.body, "", "", 0) :
            u \in {v \in LiveUrls : Ctx[v].cached /\ Ctx[v].kind # "pass"},
            up \in {r \in LiveResps : r.status = 200}}
    \cup {Req("missTransform", u, up.body, up.ctype, up.cc, 1) :
            u \in {v \in LiveUrls : Ctx[v].cached /\ Ctx[v].kind # "pass"},
            up \in {r \in LiveResps : r.status = 200}}

NextLive ==
  \/ Arrive(LiveUrls)
  \/ UpstreamResponse(LiveResps)
  \/ UpstreamError
  \/ TransformDone
  \/ Tick

\* the event of the suspended request q fires: its upstream request gets a
\* response or an error, its awaited transform resolves or rejects
Resumes(q) ==
  /\ (UpstreamResponse(LiveResps) \/ UpstreamError \/ TransformDone)
  /\ CopiesIn(q, inflight') < CopiesIn(q, inflight)

\* every upstream request ends with a response or an error and every awaited
\* transform settles
SpecLive ==
  Init /\ [][NextLive]_vars /\ \A q \in LiveReqs : WF_vars(Resumes(q))

NextHide ==
  \/ Arrive(HideUrls)
  \/ UpstreamResponse(HideResps)
  \/ UpstreamError
  \/ TransformDone
  \/ Tick

SpecHide == Init /\ [][NextHide]_vars

(***************************************************************************)
(* The second copy of the server in server.js (lines 329-592): the hide     *)
(* parameter is not parsed, only plow tiles are transformed and cached,     *)
(* the cache key is req.url, and the cache is written after the transform.  *)
(***************************************************************************)
\* '/mappingapi' + req.url
targetPathV2(url) == [path |-> <<"mappingapi">> \o url.path, query |-> url.query]

isTileReqV2(url) ==
  /\ Includes(targetPathV2(url), "highlight")
  /\ ~Includes(targetPathV2(url), "active")
  /\ ~Includes(targetPathV2(url), "info")
isPlowTileV2(url) == isTileReqV2(url) /\ Includes(targetPathV2(url), "VISITED")

\* remapPixels of the second copy has no hide-set
remapPixelsV2(data) == remapPixels(data, [null |-> TRUE, elems |-> {}])
remapTileV2(inputBuffer) == [enc |-> "png", px |-> remapPixelsV2(inputBuffer.px)]

CtxV2 ==
  [u \in UrlIds |->
     [isTileReq |-> isTileReqV2(AllUrls[u]),
      isPlowTile |-> isPlowTileV2(AllUrls[u]),
      out |-> [b \in AllBodies |-> remapTileV2(b)]]]

V2Urls == {1, 2, 5, 9}

HandleV2(u) ==
  LET g == IF CtxV2[u].isPlowTile THEN getCachedTile(tileCache, u, now)
           ELSE [cache |-> tileCache, ret |-> NullBuf, probe |-> "none"]
      hit == g.probe = "hit"
  IN  /\ tileCache' = g.cache
      /\ recency' = IF hit THEN Touched(g.cache, u) ELSE Untouched(g.cache)
      /\ lastPut' = KeepLog(g.cache)
      /\ inflight' = IF hit THEN inflight ELSE Add(Fetching(u))
      /\ last' = [NoStep EXCEPT !.step = "Arrive", !.url = u,
                                !.probe = g.probe, !.ret = g.ret,
                                !.fetch = ~hit,
                                !.next = IF hit THEN "done" ELSE "fetching",
                                !.resp = IF hit THEN TileOk(g.ret) ELSE NoResp,
                                !.calls = IF hit THEN 0 ELSE 1]
      /\ UNCHANGED <<now, pix>>

ArriveV2 ==
  /\ BagCardinality(inflight) < NumReqs
  /\ \E u \in V2Urls : HandleV2(u)

OnResponseV2(q, up) ==
  LET u == q.url
      ev == [NoStep EXCEPT !.step = "UpstreamResponse", !.url = u,
                           !.up = up, !.calls = q.calls, !.next = "done"]
  IN  IF CtxV2[u].isTileReq /\ (up.status = 204 \/ ~CtypeIsImage(up.ctype))
      THEN /\ inflight' = Drop(q)
           /\ last' = [ev EXCEPT !.resp = NotFound]
      ELSE IF CtxV2[u].isPlowTile /\ up.status = 200
      THEN /\ inflight' = Replace(q, Req("remapV2", u, up.body, up.ctype, up.cc,
                                         q.calls))
           /\ last' = [ev EXCEPT !.next = "remapV2"]
      ELSE /\ inflight' = Drop(q)
           /\ last' = [ev EXCEPT !.resp = Piped(up)]

UpstreamResponseV2 ==
  /\ \E q \in Pending :
       /\ q.pc = "fetching"
       /\ \E up \in ProxyResps : OnResponseV2(q, up)
  /\ UNCHANGED <<now, tileCache, recency, lastPut, pix>>

\* the awaited remapTile settles: the try block caches and sends the output,
\* the catch block forwards the original
SettleV2(q) ==
  LET u == q.url
      buf == q.buf
      ev == [NoStep EXCEPT !.step = "TransformDone", !.url = u, !.raw = buf,
                           !.calls = q.calls, !.next = "done"]
  IN  /\ q.pc = "remapV2"
      /\ inflight' = Drop(q)
      /\ IF Decodes(buf)
         THEN LET c == setCachedTile(tileCache, u, CtxV2[u].out[buf], now)
              IN  /\ tileCache' = c
                  /\ recency' = Touched(c, u)
                  /\ lastPut' = PutLog(c, u, CtxV2[u].out[buf])
                  /\ last' = [ev EXCEPT !.put = TRUE,
                                        !.had = MapHas(tileCache, u),
                                        !.full = Len(tileCache) >= TILE_CACHE_MAX,
                                        !.resp = TileOk(CtxV2[u].out[buf])]
         ELSE /\ last' = [ev EXCEPT !.resp =
                   [status |-> 200,
                    ctype |-> IF q.upCtype = "" THEN "image/png" ELSE q.upCtype,
                    cc |-> IF q.upCc = "" THEN "no-cache" ELSE q.upCc,
                    body |-> buf]]
              /\ UNCHANGED <<tileCache, recency, lastPut>>

TransformDoneV2 ==
  /\ \E q \in Pending : SettleV2(q)
  /\ UNCHANGED <<now, pix>>

NextV2 ==
  \/ ArriveV2
  \/ UpstreamResponseV2
  \/ UpstreamError
  \/ TransformDoneV2
  \/ Tick

SpecV2 == Init /\ [][NextV2]_vars

(***************************************************************************)
(* The pixel functions on their own: a buffer and a hide-set are drawn,     *)
(* then remapPixels or filterDesigPixels is applied to them                 *)
(***************************************************************************)
\* channel values of the grid of colours, and alpha values
Levels == {0, 64, 128, 191, 255}
Alphas == {0, 1, 255}

\* colours around the palette entries: at squared distance 1, 200, 11998 and
\* 12000 of green, at 1, 200 and 12000 of the first designation colour, and
\* far from everything
NearColours ==
  { <<1, 128, 0>>, <<10, 118, 0>>, <<6, 237, 9>>, <<100, 168, 20>>,
    <<190, 64, 46>>, <<181, 74, 46>>, <<91, 104, 66>>, <<128, 128, 128>> }

Colours ==
  {<<r, g, b>> : r \in Levels, g \in Levels, b \in Levels}
    \cup {SrcColors[j] : j \in 1..Len(SrcColors)}
    \cup {DESIG_COLORS[j] : j \in 1..Len(DESIG_COLORS)}
    \cup NearColours

PixelInputs == {<<c[1], c[2], c[3], a>> : c \in Colours, a \in Alphas}

\* buffers of one pixel, and of two pixels for a few of them
PairPixels ==
  {<<0, 128, 0, 255>>, <<10, 118, 0, 255>>, <<191, 64, 46, 255>>, <<0, 128, 0, 0>>}
PixelData ==
  {<<p>> : p \in PixelInputs} \cup {<<p, q>> : p \in PairPixels, q \in PairPixels}

\* null, the empty set, sets of indices and the set that Number yields for
\* a token that is no number
HideSets ==
  { [null |-> TRUE, elems |-> {}] } \cup
  { [null |-> FALSE, elems |-> e] : e \in {{}, {0}, {1}, {0, 4}, {NaN}, 0..6} }

InitPixels ==
  /\ now = 0
  /\ tileCache = <<>>
  /\ inflight = EmptyBag
  /\ last = NoStep
  /\ recency = <<>>
  /\ lastPut = {}
  /\ pix \in {[NoCall EXCEPT !.data = d, !.hideSet = h] : d \in PixelData, h \in HideSets}

CallRemapPixels ==
  /\ pix.fn = "none"
  /\ pix' = [pix EXCEPT !.fn = "remapPixels",
                        !.out = remapPixels(pix.data, pix.hideSet)]
  /\ UNCHANGED <<now, tileCache, inflight, last, recency, lastPut>>

\* filterDesigPixels is only ever passed a Set (line 191)
CallFilterDesigPixels ==
  /\ pix.fn = "none"
  /\ ~pix.hideSet.null
  /\ pix' = [pix EXCEPT !.fn = "filterDesigPixels",
                        !.out = filterDesigPixels(pix.data, pix.hideSet)]
  /\ UNCHANGED <<now, tileCache, inflight, last, recency, lastPut>>

NextPixels ==
  \/ CallRemapPixels
  \/ CallFilterDesigPixels

SpecPixels == InitPixels /\ [][NextPixels]_vars

(***************************************************************************)
(* Properties of the tile cache                                            *)
(***************************************************************************)
Entries(cache) == {cache[i] : i \in 1..Len(cache)}
Age(entry) == now - entry.timestamp
\* the keys a step removed from the cache
Removed == Keys(tileCache) \ Keys(tileCache')

\* C1: in every reachable state the tile cache holds at most TILE_CACHE_MAX
\* entries (and, being a Map, at most one entry per key).
C1_SizeBounded ==
  /\ Len(tileCache) <= TILE_CACHE_MAX
  /\ Cardinality(Keys(tileCache)) = Len(tileCache)

\* a put of a new key has just happened while the cache was at capacity
C1_Witness ==
  /\ last.put /\ last.full /\ ~last.had
  /\ Len(tileCache) = TILE_CACHE_MAX

\* C2 as stated: in every reachable state every retained entry has age at
\* most TILE_CACHE_TTL.
C2_AllEntriesFresh == \A e \in Entries(tileCache) : Age(e) <= TILE_CACHE_TTL

\* C2 amended: expiry is lazy. Right after the cache probe of a tile request
\* the entry of the probed key, if retained, has age at most TILE_CACHE_TTL,
\* and bytes are returned only from such an entry; an entry that is not
\* looked up may stay in the cache past TILE_CACHE_TTL.
C2_ProbedEntryFresh ==
  (last.step = "Arrive" /\ Ctx[last.url].cached) =>
     /\ \A e \in Entries(tileCache) :
          e.key = Ctx[last.url].key => Age(e) <= TILE_CACHE_TTL
     /\ last.ret # NullBuf =>
          \E e \in Entries(tileCache) :
            e.key = Ctx[last.url].key /\ e.buffer = last.ret

\* a probe has just removed an entry older than TILE_CACHE_TTL while another
\* entry, also older, stays in the cache
C2_Witness ==
  /\ last.probe = "expired"
  /\ \E e \in Entries(tileCache) : Age(e) > TILE_CACHE_TTL

\* C3 as stated: a put of a key that is not in the cache, with the cache at
\* capacity, evicts exactly the least recently touched key (touched: put,
\* first or overwriting, or get hit); below capacity a put evicts nothing.
C3_EvictsLeastRecentlyTouched ==
  [][last'.put =>
       IF Len(tileCache) >= TILE_CACHE_MAX
       THEN MapHas(tileCache, Ctx[last'.url].key) \/ Removed = {Head(recency)}
       ELSE Removed = {}]_vars

\* C4 as stated: a put of a key that is in the cache replaces the entry of
\* that key and removes no other key, also when the cache is at capacity.
C4_OverwriteEvictsNothing ==
  [][(last'.put /\ MapHas(tileCache, Ctx[last'.url].key)) =>
       /\ Removed = {}
       /\ MapHas(tileCache', Ctx[last'.url].key)]_vars

\* C5: getCachedTile(key) returns absent and leaves the cache unchanged when
\* key is not present, returns absent and removes the entry (and nothing
\* else) when the entry is older than TILE_CACHE_TTL, and otherwise returns
\* exactly the bytes of the most recent put of key.
C5_GetContract ==
  [][(last'.step = "Arrive" /\ Ctx[last'.url].cached) =>
       LET k == Ctx[last'.url].key
       IN  IF ~MapHas(tileCache, k)
           THEN last'.ret = NullBuf /\ tileCache' = tileCache
           ELSE IF now - MapGet(tileCache, k).timestamp > TILE_CACHE_TTL
           THEN /\ last'.ret = NullBuf
                /\ ~MapHas(tileCache', k)
                /\ Entries(tileCache') = Entries(tileCache) \ {MapGet(tileCache, k)}
           ELSE /\ last'.ret # NullBuf
                /\ <<k, last'.ret>> \in lastPut
                /\ Entries(tileCache') = Entries(tileCache)]_vars

\* a probe at age exactly TILE_CACHE_TTL has just returned the stored bytes
C5_Witness ==
  /\ last.step = "Arrive" /\ last.probe = "hit" /\ last.ret = Corrupt
  /\ \E e \in Entries(tileCache) :
       e.key = Ctx[last.url].key /\ Age(e) = TILE_CACHE_TTL

(***************************************************************************)
(* Properties of the request handler                                       *)
(***************************************************************************)
\* the entries a step created or replaced
Written == Entries(tileCache') \ Entries(tileCache)

\* C6: a cache entry is created or replaced only by the step that receives,
\* for a tile request, an upstream response with status 200 and an image
\* content type, and only under the key of that request; a step that ends
\* a request with 404, 502 or a cache hit, or that pipes a non-tile
\* response, writes no entry.
C6_PutOnlyOnImage200 ==
  [][(last'.put \/ Written # {}) =>
       /\ last'.step = "UpstreamResponse"
       /\ isTileReq(AllUrls[last'.url])
       /\ last'.up.status = 200
       /\ CtypeIsImage(last'.up.ctype)
       /\ last'.resp.status \notin {404, 502}
       /\ \A e \in Written : e.key = Ctx[last'.url].key]_vars

\* an upstream body of image type that does not decode has just been cached
C6_Witness ==
  /\ last.put /\ last.up.status = 200 /\ last.up.ctype = "image/jpeg"
  /\ \E e \in Entries(tileCache) : e.buffer = last.up.body

\* C7: every entry written to the cache holds exactly the body that upstream
\* delivered to the request that writes it, never the output of the pixel
\* transform (so by induction every cache entry does, in every state).
C7_CacheHoldsUpstreamBytes ==
  [][(last'.put \/ Written # {}) =>
       /\ last'.raw \in {up.body : up \in ProxyResps}
       /\ \A e \in Written : e.buffer = last'.raw]_vars

\* the requests the handler has classified: those in flight and the last one
SeenUrls == ({q.url : q \in Pending} \cup {last.url}) \ {0}

HasParam(query, name) == \E i \in 1..Len(query) : query[i].name = name

RECURSIVE WithoutHide(_)
WithoutHide(query) ==
  IF query = <<>> THEN <<>>
  ELSE IF Head(query).name = "hide" THEN WithoutHide(Tail(query))
  ELSE <<Head(query)>> \o WithoutHide(Tail(query))

DiffOnlyInHide(a, b) == a.path = b.path /\ WithoutHide(a.query) = WithoutHide(b.query)

\* C8: for every proxied request no parameter called hide is in the URL sent
\* upstream nor in the cache key, and two requests that differ only in
\* their hide parameters have the same upstream URL and the same cache key.
C8_HideIsLocal ==
  /\ \A u \in SeenUrls :
       /\ ~HasParam(Ctx[u].target.target.query, "hide")
       /\ ~HasParam(cleanUrl(AllUrls[Ctx[u].key]).query, "hide")
       /\ cleanUrl(AllUrls[Ctx[u].key]) = cleanUrl(AllUrls[u])
  /\ \A u, v \in SeenUrls :
       DiffOnlyInHide(AllUrls[u], AllUrls[v]) =>
         Ctx[u].target = Ctx[v].target /\ Ctx[u].key = Ctx[v].key

\* two requests that differ only in their hide parameters, one of them with
\* two hide parameters, are both waiting for upstream
C8_Witness ==
  \E q1, q2 \in Pending :
    /\ q1.pc = "fetching" /\ q2.pc = "fetching"
    /\ q1.url # q2.url
    /\ DiffOnlyInHide(AllUrls[q1.url], AllUrls[q2.url])
    /\ \E i, j \in 1..Len(AllUrls[q1.url].query) :
         /\ i # j
         /\ AllUrls[q1.url].query[i].name = "hide"
         /\ AllUrls[q1.url].query[j].name = "hide"

\* the transform rule of the dispatcher, on bytes that decode: recolor for plow,
\* filter for designation when the hide-set is nonempty, passthrough otherwise
Expected(url, raw) ==
  IF isPlowTile(url) THEN remapTile(raw, hideSetOf(url))
  ELSE IF isDesigTile(url) /\ ~hideSetOf(url).null /\ hideSetOf(url).elems # {}
  THEN filterDesigTile(raw, hideSetOf(url))
  ELSE raw

\* C9: a tile request whose probe finds an unexpired entry for its key issues
\* no upstream fetch, and its response is status 200 with the cached raw
\* bytes transformed with the hide-set of this request (the cached raw bytes
\* themselves when they do not decode).
C9_HitSkipsUpstream ==
  [][/\ (/\ last'.step = "Arrive"
         /\ Ctx[last'.url].cached
         /\ MapHas(tileCache, Ctx[last'.url].key)
         /\ now - MapGet(tileCache, Ctx[last'.url].key).timestamp <= TILE_CACHE_TTL)
          => /\ ~last'.fetch
             /\ last'.calls = 0
             /\ last'.ret = MapGet(tileCache, Ctx[last'.url].key).buffer
             /\ \/ last'.resp # NoResp /\ inflight' = inflight
                \/ /\ last'.resp = NoResp
                   /\ inflight' =
                        Add(Req("hitTransform", last'.url, last'.ret, "", "", 0))
     /\ (last'.probe = "hit" /\ last'.resp # NoResp)
          => /\ last'.calls = 0
             /\ last'.resp.status = 200
             /\ last'.resp.body =
                  IF Decodes(last'.ret) THEN Expected(AllUrls[last'.url], last'.ret)
                  ELSE last'.ret]_vars

\* a plow tile request with hide=0 has just been answered from the cache,
\* without an upstream call, with the green pixel made transparent
C9_Witness ==
  /\ last.step = "TransformDone" /\ last.probe = "hit" /\ last.calls = 0
  /\ hideSetOf(AllUrls[last.url]).elems = {0}
  /\ last.ret = TileImg
  /\ last.resp.body.px = <<<<0, 128, 0, 0>>, Critical, Transparent>>

\* C10: a tile request whose probe finds no entry for its key, while another
\* request for the same key is still waiting for upstream, misses and issues
\* its own upstream fetch; and every tile request whose fetch delivers
\* status 200 with an image stores the bytes it fetched under the key,
\* whether or not the key was stored in between.
C10_NoCoalescing ==
  [][/\ (/\ last'.step = "Arrive"
         /\ Ctx[last'.url].cached
         /\ ~MapHas(tileCache, Ctx[last'.url].key))
          => /\ last'.probe = "absent"
             /\ last'.fetch
             /\ inflight' = Add(Fetching(last'.url))
     /\ (/\ last'.step = "UpstreamResponse"
         /\ Ctx[last'.url].cached
         /\ last'.up.status = 200
         /\ CtypeIsImage(last'.up.ctype))
          => /\ last'.put
             /\ [key |-> Ctx[last'.url].key, buffer |-> last'.up.body,
                 timestamp |-> now] \in Entries(tileCache')]_vars

\* the second of two concurrent requests for one key has just stored its
\* bytes over the entry that the first one stored
C10_Witness ==
  /\ last.step = "UpstreamResponse" /\ last.put /\ last.had
  /\ \E e \in Entries(tileCache) :
       e.key = Ctx[last.url].key /\ e.buffer = last.up.body /\ e.timestamp = now

(***************************************************************************)
(* Failure handling of the request handler                                 *)
(***************************************************************************)
\* the bytes the request of the step held: rawCached or inputBuf
Held == IF last'.probe = "hit" THEN last'.ret ELSE last'.raw
\* the step settles a transform that threw
Threw == last'.step = "TransformDone" /\ ~Decodes(Held)

\* C11 as stated: when the transform of a tile request throws, the response
\* is status 200 with the raw bytes, and on the miss path the cache holds
\* those raw bytes under the key of the request after that step.
C11_RawCachedAfterFallback ==
  [][Threw =>
       /\ last'.resp.status = 200
       /\ last'.resp.body = Held
       /\ (last'.probe # "hit" =>
             \E e \in Entries(tileCache') :
               e.key = Ctx[last'.url].key /\ e.buffer = last'.raw)]_vars

\* C11 amended: when the transform of a tile request throws, the response is
\* status 200 with the raw bytes and the cache is not touched by the catch
\* block; on the miss path the raw bytes were stored under the key of the
\* request by the step that received them, before the transform was
\* attempted, whether or not they decode.
C11_FallbackAnswersRaw ==
  [][/\ Threw =>
          /\ last'.resp.status = 200
          /\ last'.resp.body = Held
          /\ tileCache' = tileCache
     /\ (last'.step = "UpstreamResponse" /\ last'.next = "missTransform") =>
          /\ [key |-> Ctx[last'.url].key, buffer |-> last'.up.body,
              timestamp |-> now] \in Entries(tileCache')
          /\ inflight' = Replace(Fetching(last'.url),
                                 Req("missTransform", last'.url, last'.up.body,
                                     last'.up.ctype, last'.up.cc, 1))]_vars

\* the transform of a miss has just thrown: the answer is the raw upstream
\* body with status 200 and that body is cached under the key of the request
C11_Witness ==
  /\ last.step = "TransformDone" /\ last.probe # "hit" /\ last.raw = Corrupt
  /\ last.resp = MissFallback(Corrupt, "image/jpeg")
  /\ \E e \in Entries(tileCache) :
       e.key = Ctx[last.url].key /\ e.buffer = Corrupt

\* C12: when the upstream response to a tile request has status 204 or a
\* content type that is not an image, the request is answered 404 with an
\* empty body, nothing is stored and the cache is exactly as before.
C12_NoTileIs404 ==
  [][(/\ last'.step = "UpstreamResponse"
      /\ isTileReq(AllUrls[last'.url])
      /\ (last'.up.status = 204 \/ ~CtypeIsImage(last'.up.ctype))) =>
       /\ last'.resp.status = 404
       /\ last'.resp.body = EmptyBody
       /\ last'.next = "done"
       /\ ~last'.put
       /\ tileCache' = tileCache]_vars

\* upstream has just answered a tile request with 200 text/html while the
\* cache held an entry: the answer is the 404 and the entry is still there
C12_Witness ==
  /\ last.step = "UpstreamResponse" /\ Ctx[last.url].cached
  /\ last.up.status = 200 /\ last.up.ctype = "text/html"
  /\ last.resp = NotFound
  /\ tileCache # <<>>

\* C13: when the upstream request of a proxied request fails, the request is
\* answered 502 with the fixed JSON error payload; it has made exactly one
\* upstream call and issues no further one, and the cache is exactly as
\* before.
C13_TransportFailureIs502 ==
  [][last'.step = "UpstreamError" =>
       /\ last'.resp.status = 502
       /\ last'.resp.ctype = "application/json"
       /\ last'.resp.body = ProxyErrorBody
       /\ last'.calls = 1
       /\ ~last'.fetch
       /\ inflight' = Drop(Fetching(last'.url))
       /\ BagCardinality(inflight') = BagCardinality(inflight) - 1
       /\ tileCache' = tileCache]_vars

\* the upstream request of a tile request has just failed while the cache
\* held an entry for another key
C13_Witness ==
  /\ last.step = "UpstreamError" /\ Ctx[last.url].cached
  /\ last.resp = BadGateway
  /\ tileCache # <<>> /\ ~MapHas(tileCache, Ctx[last.url].key)

(***************************************************************************)
(* The hide list                                                           *)
(***************************************************************************)
\* the tokens that are written as numbers
IsNumberTok(tok) == tok \in {"0", "1", "2", "3"}

\* a comma-separated string without its tokens that are not numbers
NumberToksOnly(v) ==
  IF SelectSeq(v, IsNumberTok) = <<>> THEN EmptyStr ELSE SelectSeq(v, IsNumberTok)

\* the request with those tokens absent from its hide lists
AsIfAbsent(url) ==
  [path |-> url.path,
   query |-> [i \in 1..Len(url.query) |->
                IF url.query[i].name = "hide"
                THEN Param("hide", NumberToksOnly(url.query[i].value))
                ELSE url.query[i]]]

\* the response to a tile request for url that holds the raw bytes buf
AnswerOf(url, hit, buf, upCtype) ==
  IF Decodes(buf) \/ TransformKind(url) = "pass" THEN TileOk(OutputBuf(url, buf))
  ELSE IF hit THEN HitFallback(buf)
  ELSE MissFallback(buf, upCtype)

\* the step answers a tile request from raw tile bytes
AnswersTile ==
  /\ last'.step \in {"Arrive", "UpstreamResponse", "TransformDone"}
  /\ Ctx[last'.url].cached
  /\ last'.resp.status = 200

\* C14: a token of the hide list that is not a number, the empty token
\* included, has no effect: every answer to a tile request is the answer the
\* request would get with those tokens absent from its hide list, and the
\* cache key is the same.
C14_NonNumberTokenIsNoOp ==
  [][AnswersTile =>
       /\ last'.resp =
            AnswerOf(AsIfAbsent(AllUrls[last'.url]), last'.probe = "hit", Held,
                     last'.up.ctype)
       /\ cleanUrl(AsIfAbsent(AllUrls[last'.url])) = cleanUrl(AllUrls[last'.url])]_vars

(***************************************************************************)
(* Response headers                                                        *)
(***************************************************************************)
\* the Cache-Control values of the model that carry max-age > 0
PositiveMaxAge(cc) == cc \in {"public, max-age=300", "max-age=60"}

\* C15: every response that delivers tile bytes with status 200 to a tile
\* request (transformed, passed through or raw fallback, from the cache or
\* after a fetch) carries a Cache-Control header with a positive max-age.
C15_TileResponsesCarryMaxAge ==
  (/\ last.url # 0
   /\ Ctx[last.url].cached
   /\ last.resp.status = 200) => PositiveMaxAge(last.resp.cc)

\* C16: every OPTIONS request is answered at once with the fixed preflight
\* response (204, Access-Control-Allow-Methods GET, OPTIONS and
\* Access-Control-Allow-Headers Content-Type) whatever its path, paths under
\* /api/ included, and issues no upstream fetch.
C16_OptionsIsPreflight ==
  [][(last'.step = "Arrive" /\ last'.method = "OPTIONS") =>
       /\ last'.resp.status = 204
       /\ last'.allow = AllowPreflight
       /\ ~last'.fetch
       /\ inflight' = inflight]_vars

(***************************************************************************)
(* Requests under the proxy prefix that are no tile requests               *)
(***************************************************************************)
\* the step belongs to a proxied request that is no tile request
NonTileStep ==
  /\ last'.url # 0
  /\ StartsWithApi(AllUrls[last'.url])
  /\ ~isTileReq(AllUrls[last'.url])

\* C17 as stated: a proxied request that is no tile request neither reads
\* nor changes the tile cache, and its response carries the status, the
\* content type and the body of the upstream response unmodified, with
\* Cache-Control no-cache only when upstream sent none.
C17_NonTileForwardedUnmodified ==
  [][NonTileStep =>
       /\ last'.probe = "none" /\ ~last'.put
       /\ tileCache' = tileCache
       /\ (last'.step = "UpstreamResponse" =>
             /\ last'.resp.status = last'.up.status
             /\ last'.resp.ctype = last'.up.ctype
             /\ last'.resp.body = last'.up.body
             /\ last'.resp.cc = IF last'.up.cc = "" THEN "no-cache"
                                ELSE last'.up.cc)]_vars

\* C17 amended: as above, but the content type is that of upstream only when
\* upstream sent one, and application/octet-stream when it sent none.
C17_NonTilePiped ==
  [][NonTileStep =>
       /\ last'.probe = "none" /\ ~last'.put
       /\ tileCache' = tileCache
       /\ (last'.step = "Arrive" => last'.fetch /\ last'.resp = NoResp)
       /\ (last'.step = "UpstreamResponse" =>
             /\ last'.resp.status = last'.up.status
             /\ last'.resp.ctype = IF last'.up.ctype = ""
                                   THEN "application/octet-stream"
                                   ELSE last'.up.ctype
             /\ last'.resp.body = last'.up.body
             /\ last'.resp.cc = IF last'.up.cc = "" THEN "no-cache"
                                ELSE last'.up.cc)]_vars

\* a non-tile request has just been answered with upstream's own
\* Cache-Control while the cache held entries, which are untouched
C17_Witness ==
  /\ last.step = "UpstreamResponse" /\ last.url # 0
  /\ StartsWithApi(AllUrls[last.url]) /\ ~isTileReq(AllUrls[last.url])
  /\ last.up.cc = "max-age=60" /\ last.resp.cc = "max-age=60"
  /\ last.resp.body = last.up.body
  /\ Len(tileCache) = 2

(***************************************************************************)
(* Properties of the pixel functions                                       *)
(***************************************************************************)
\* squared distance of pixel p to colour c
DistTo(p, c) == SqDist(p[1], p[2], p[3], c)

\* the 0-based index of the colour nearest to p, the first one when several
\* are equally near
NearestIdx(p, colors) ==
  (CHOOSE j \in 1..Len(colors) :
     /\ \A k \in 1..Len(colors) : DistTo(p, colors[j]) <= DistTo(p, colors[k])
     /\ \A k \in 1..(j - 1) : DistTo(p, colors[k]) > DistTo(p, colors[j])) - 1

NearestDist(p, colors) == DistTo(p, colors[NearestIdx(p, colors) + 1])

\* the hide-set is a Set and holds idx
InHideSet(hideSet, idx) == ~hideSet.null /\ idx \in hideSet.elems

\* C18: remapPixels gives every non-transparent pixel whose nearest palette
\* index is in the hide-set, at squared distance below 12000, alpha 0 and
\* leaves its R, G and B as they were, at distance 0 and at positive distance.
C18_HiddenPixelGoesTransparent ==
  pix.fn = "remapPixels" =>
    \A i \in 1..Len(pix.data) :
      LET p == pix.data[i]
      IN  (/\ p[4] # 0
           /\ InHideSet(pix.hideSet, NearestIdx(p, SrcColors))
           /\ NearestDist(p, SrcColors) < 12000)
            => pix.out[i] = <<p[1], p[2], p[3], 0>>

\* remapPixels has just hidden an exact green pixel and a blended one
C18_Witness ==
  /\ pix.fn = "remapPixels"
  /\ pix.data = << <<0, 128, 0, 255>>, <<10, 118, 0, 255>> >>
  /\ pix.hideSet.elems = {0}
  /\ pix.out = << <<0, 128, 0, 0>>, <<10, 118, 0, 0>> >>

\* C19: filterDesigPixels returns a buffer of the same pixels in which no R,
\* G or B differs from the input; a pixel differs at all only in its alpha,
\* which is then 0, and only when the pixel was not transparent, its nearest
\* designation colour is at squared distance below 12000 and the index of
\* that colour is in the hide-set.
C19_FilterTouchesOnlyHiddenAlpha ==
  pix.fn = "filterDesigPixels" =>
    /\ Len(pix.out) = Len(pix.data)
    /\ \A i \in 1..Len(pix.data) :
         LET p == pix.data[i]
             o == pix.out[i]
         IN  /\ o[1] = p[1] /\ o[2] = p[2] /\ o[3] = p[3]
             /\ o # p =>
                  /\ o[4] = 0
                  /\ p[4] # 0
                  /\ NearestDist(p, DESIG_COLORS) < 12000
                  /\ NearestIdx(p, DESIG_COLORS) \in pix.hideSet.elems

\* filterDesigPixels has just hidden a Critical pixel and left the green
\* pixel next to it as it was
C19_Witness ==
  /\ pix.fn = "filterDesigPixels"
  /\ pix.hideSet.elems = {0}
  /\ pix.data = << <<191, 64, 46, 255>>, <<0, 128, 0, 255>> >>
  /\ pix.out = << <<191, 64, 46, 0>>, <<0, 128, 0, 255>> >>

\* C20: remapPixels and filterDesigPixels return every pixel whose alpha is 0
\* with all four channels as they were, whatever its R, G and B and whatever
\* the hide-set.
C20_TransparentPixelUntouched ==
  pix.fn \in {"remapPixels", "filterDesigPixels"} =>
    \A i \in 1..Len(pix.data) :
      pix.data[i][4] = 0 => pix.out[i] = pix.data[i]

\* remapPixels has just recoloured an opaque green pixel and left the
\* transparent pixel of the same colour before it as it was
C20_Witness ==
  /\ pix.fn = "remapPixels"
  /\ pix.data = << <<0, 128, 0, 0>>, <<0, 128, 0, 255>> >>
  /\ pix.out = << <<0, 128, 0, 0>>, <<52, 168, 83, 255>> >>

\* C21: remapPixels returns every pixel whose squared distance to each of
\* the palette source colours is 12000 or more with R, G, B and alpha as
\* they were, whatever the hide-set; a pixel at distance exactly 12000 is
\* such a pixel.
C21_FarPixelUntouched ==
  pix.fn = "remapPixels" =>
    \A i \in 1..Len(pix.data) :
      (\A j \in 1..Len(SrcColors) : DistTo(pix.data[i], SrcColors[j]) >= 12000)
        => pix.out[i] = pix.data[i]

\* remapPixels has just returned an opaque pixel at squared distance exactly
\* 12000 of green unchanged, with every index in the hide-set
C21_Witness ==
  /\ pix.fn = "remapPixels"
  /\ pix.data = << <<100, 168, 20, 255>> >>
  /\ NearestDist(pix.data[1], SrcColors) = 12000
  /\ pix.hideSet.elems = 0..6
  /\ pix.out = pix.data

\* C22: remapPixels gives every non-transparent pixel whose R, G, B are
\* exactly the source colour of a palette entry, and whose index is not in
\* the hide-set, the destination colour of that same entry, and leaves its
\* alpha as it was.
C22_ExactMatchReplaced ==
  pix.fn = "remapPixels" =>
    \A i \in 1..Len(pix.data) : \A j \in 1..Len(COLOR_MAP) :
      LET p == pix.data[i]
          d == COLOR_MAP[j].dst
      IN  (/\ p[4] # 0
           /\ <<p[1], p[2], p[3]>> = COLOR_MAP[j].src
           /\ ~InHideSet(pix.hideSet, j - 1))
            => pix.out[i] = <<d[1], d[2], d[3], p[4]>>

\* remapPixels has just replaced a violet pixel of alpha 1 by soft violet
\* under a hide-set that holds another index
C22_Witness ==
  /\ pix.fn = "remapPixels"
  /\ pix.data = << <<138, 43, 226, 1>> >>
  /\ pix.hideSet.elems = {1}
  /\ pix.out = << <<156, 106, 222, 1>> >>

(***************************************************************************)
(* One response per request                                                *)
(***************************************************************************)
\* the last step resumed a request suspended as q
Resumed(q) ==
  /\ last.url = q.url
  /\ CASE q.pc = "fetching" -> last.step \in {"UpstreamResponse", "UpstreamError"}
       [] q.pc = "hitTransform" ->
            last.step = "TransformDone" /\ last.probe = "hit" /\ last.ret = q.buf
       [] q.pc = "missTransform" ->
            /\ last.step = "TransformDone" /\ last.probe # "hit"
            /\ last.raw = q.buf /\ last.up.ctype = q.upCtype /\ last.up.cc = q.upCc
       [] OTHER -> FALSE

\* the step wrote a response head
WroteHead == IF last'.resp # NoResp THEN 1 ELSE 0

\* C23: a request under /api/ is in flight exactly until its one response
\* head is written: a step of the handler takes up one request or resumes
\* one, the request stays in flight when the step writes no response and
\* is finished when it writes one, so no head is written for a request
\* that was answered; and every suspended request is resumed, the one
\* waiting for a settled transform with a response, the one waiting for
\* upstream with a response or with the transform that then settles.
C23_ExactlyOneResponse ==
  /\ [][/\ BagCardinality(inflight') =
             BagCardinality(inflight)
               + (IF last'.step = "Arrive" THEN 1 ELSE 0) - WroteHead
        /\ last'.step \in {"UpstreamResponse", "UpstreamError", "TransformDone"} =>
             \E q \in Pending :
               /\ q.url = last'.url
               /\ \/ WroteHead = 1 /\ inflight' = Drop(q)
                  \/ /\ WroteHead = 0
                     /\ \E q2 \in BagToSet(inflight') :
                          /\ q2.pc \in {"hitTransform", "missTransform"}
                          /\ inflight' = Replace(q, q2)
        /\ last'.step \in {"UpstreamError", "TransformDone"} => WroteHead = 1]_vars
  /\ \A q \in LiveReqs : (q \in Pending) ~> Resumed(q)

\* a request that fetched bytes that do not decode has just been answered
\* with them, and nothing is in flight any more
C23_Witness ==
  /\ last.step = "TransformDone" /\ last.calls = 1
  /\ last.resp = MissFallback(Corrupt, "image/jpeg")
  /\ inflight = EmptyBag

(***************************************************************************)
(* Age of the bytes served from the cache                                  *)
(***************************************************************************)
\* C24: a hit of getCachedTile moves the entry of the key to the end of the
\* Map and changes nothing else: the entry keeps its bytes and its
\* timestamp, the other entries keep theirs and their order; the bytes
\* returned are those of an entry stamped at most TILE_CACHE_TTL before the
\* probe. An entry is stamped only by the put that stores it, with the time
\* of that put, so the stamp of an entry is the time its bytes were stored.
C24_HitKeepsTimestamp ==
  [][/\ (last'.step = "Arrive" /\ last'.probe = "hit") =>
          LET k == Ctx[last'.url].key
              e == MapGet(tileCache, k)
          IN  /\ tileCache' = MapDelete(tileCache, k) \o <<e>>
              /\ last'.ret = e.buffer
              /\ now - e.timestamp <= TILE_CACHE_TTL
     /\ \A e \in Entries(tileCache') \ Entries(tileCache) :
          last'.put /\ e.timestamp = now /\ e.buffer = last'.raw]_vars

\* a probe has just hit an entry at age TILE_CACHE_TTL and moved it behind
\* an entry stored after it, with its stamp as it was
C24_Witness ==
  /\ last.step = "Arrive" /\ last.probe = "hit"
  /\ Len(tileCache) >= 2
  /\ tileCache[Len(tileCache)].key = Ctx[last.url].key
  /\ tileCache[Len(tileCache)].buffer = last.ret
  /\ Age(tileCache[Len(tileCache)]) = TILE_CACHE_TTL
  /\ tileCache[Len(tileCache) - 1].timestamp > tileCache[Len(tileCache)].timestamp

====
